---- MODULE Spec2Model ----
(***************************************************************************)
(* Model of Tools/chandra_inference.py: the layout-block parser            *)
(* (parse_layout_blocks), the plain-text fallback (extract_text_from_html),*)
(* the image size normaliser (resize_image_if_needed), the model cache     *)
(* (load_model), the extraction pipeline (run_inference) and the CLI       *)
(* entry point (main).                                                     *)
(*                                                                         *)
(* Strings are sequences of one-character strings, so that strip(),        *)
(* split(), join() and int() are computed and not assumed.  A data-bbox    *)
(* attribute is a sequence of lexical tokens (number literals, brackets,   *)
(* commas, whitespace, quoted strings, bare words); json.loads and the     *)
(* whitespace-separated fallback are parsers over that sequence.           *)
(***************************************************************************)
EXTENDS Integers, Sequences, FiniteSets, TLC

VARIABLES
    pc,          \* position of the process (main / run_inference statement)
    entry,       \* "main": CLI run (main); "lib": a host calling run_inference
    runs,        \* number of run_inference calls started in this process
    cache,       \* _model_cache: [model, processor], "None" or a handle
    cache0,      \* _model_cache as it was when the current run started
    loads,       \* number of external mlx_vlm.load calls in this process
    files,       \* files written by this process (resized artifacts)
    files0,      \* files as they were when the current run started
    imagePath,   \* image_path argument of the current run
    origDims,    \* img.size of the decoded input image (<<0,0>> before decode)
    resizeRet,   \* value returned by resize_image_if_needed: [path, dims]
    genCalls,    \* image= arguments of the generate calls of the current run
    raw_html,    \* markup returned by the inference call
    parseArgs,   \* (image_width, image_height) arguments of parse_layout_blocks calls
    bounding_boxes, \* blocks returned by parse_layout_blocks
    fallbackCalls,  \* extract_text_from_html calls of the current run
    text,        \* run_inference local: text
    lines,       \* run_inference local: lines
    confidence,  \* run_inference local: confidence, in hundredths
    raised,      \* exceptions raised inside the try block of the current run
    trace,       \* what the current run did to its environment, in order
    result,      \* dict returned by run_inference (keys = {} : none yet)
    stdout,      \* JSON objects printed by main
    uncaught,    \* exception that left main / run_inference uncaught ("" : none)
    exitCode,    \* process exit status (-1 : still running)
    env,         \* what is installed: [pil, bs4], fixed for the process
    maxPixels,   \* max_pixels argument of resize_image_if_needed in this process
    prevRet,     \* what the previous direct resize_image_if_needed call returned
    lpc,         \* per concurrent caller of load_model: the statement it is at
    lloc,        \* per concurrent caller: its locals model, processor
    lret         \* per concurrent caller: the pair load_model returned to it

vars == <<pc, entry, runs, cache, cache0, loads, files, files0, imagePath,
          origDims, resizeRet, genCalls, raw_html, parseArgs, bounding_boxes,
          fallbackCalls, text, lines, confidence, raised, trace, result, stdout,
          uncaught, exitCode, env, maxPixels, prevRet, lpc, lloc, lret>>

----------------------------------------------------------------------------
(* Bounds of the model *)

\* largest number of top-level nodes in the markup returned by inference
MaxDivs == 2
\* largest number of run_inference calls a host process makes
MaxRuns == 2

----------------------------------------------------------------------------
(* Program constants *)

BBOX_SCALE == 1024
MAX_PIXELS == 2048 * 2048
\* confidence values, in hundredths (0.95 and 0.7)
CONF_HIGH == 95
CONF_LOW == 70

----------------------------------------------------------------------------
(* Strings: sequences of one-character strings *)

Whitespace == {" ", "\n", "\t"}

IsBlank(s) == \A i \in 1..Len(s) : s[i] \in Whitespace

\* str.strip(): drop leading and trailing whitespace
Strip(s) ==
    IF IsBlank(s) THEN <<>>
    ELSE LET lo == CHOOSE i \in 1..Len(s) :
                      s[i] \notin Whitespace /\ \A j \in 1..(i-1) : s[j] \in Whitespace
             hi == CHOOSE i \in 1..Len(s) :
                      s[i] \notin Whitespace /\ \A j \in (i+1)..Len(s) : s[j] \in Whitespace
         IN  SubSeq(s, lo, hi)

\* sep.join(parts)
RECURSIVE Join(_, _)
Join(sep, parts) ==
    IF Len(parts) = 0 THEN <<>>
    ELSE IF Len(parts) = 1 THEN parts[1]
    ELSE parts[1] \o sep \o Join(sep, Tail(parts))

\* [f(x) for x in s if keep(x)] helpers
RECURSIVE SelectNonEmpty(_)
SelectNonEmpty(ss) ==
    IF Len(ss) = 0 THEN <<>>
    ELSE (IF Len(Head(ss)) > 0 THEN <<Head(ss)>> ELSE <<>>) \o SelectNonEmpty(Tail(ss))

Digits == {"0", "1", "2", "3", "4", "5", "6", "7", "8", "9"}

DigitVal(c) ==
    CASE c = "0" -> 0 [] c = "1" -> 1 [] c = "2" -> 2 [] c = "3" -> 3
      [] c = "4" -> 4 [] c = "5" -> 5 [] c = "6" -> 6 [] c = "7" -> 7
      [] c = "8" -> 8 [] c = "9" -> 9

RECURSIVE DigitsVal(_)
DigitsVal(s) ==
    IF Len(s) = 0 THEN 0
    ELSE 10 * DigitsVal(SubSeq(s, 1, Len(s) - 1)) + DigitVal(s[Len(s)])

\* float -> int and int(): truncation toward zero of n / d  (d > 0)
Trunc(n, d) == IF n >= 0 THEN n \div d ELSE -((-n) \div d)

----------------------------------------------------------------------------
(* Python values and exceptions *)

\* an exception-or-value outcome
Ok(v) == [ok |-> TRUE, v |-> v, exc |-> ""]
Raise(e) == [ok |-> FALSE, v |-> 0, exc |-> e]

\* scalars: t in {"int", "float", "str", "none", "bool"}; a number is n / d
PyInteger(n) == [t |-> "int", n |-> n, d |-> 1, s |-> <<>>]
PyFloat(n, d) == [t |-> "float", n |-> n, d |-> d, s |-> <<>>]
PyStr(s) == [t |-> "str", n |-> 0, d |-> 1, s |-> s]
PyNone == [t |-> "none", n |-> 0, d |-> 1, s |-> <<>>]
PyBool(b) == [t |-> "bool", n |-> IF b THEN 1 ELSE 0, d |-> 1, s |-> <<>>]

\* a json.loads result: a scalar (kind = "scalar"), a list or a dict (keys)
PyScalar(x) == [kind |-> "scalar", x |-> x, items |-> <<>>]
PyList(items) == [kind |-> "list", x |-> PyNone, items |-> items]
PyDict(keys) == [kind |-> "dict", x |-> PyNone, items |-> keys]

\* an unsigned run of decimal digits, or a ValueError
IntOfDigits(body, negative) ==
    IF Len(body) > 0 /\ \A i \in 1..Len(body) : body[i] \in Digits
    THEN Ok(IF negative THEN -DigitsVal(body) ELSE DigitsVal(body))
    ELSE Raise("ValueError")

\* int(str): optional surrounding whitespace, optional sign, decimal digits
IntOfStripped(c) ==
    IF Len(c) > 0 /\ c[1] \in {"-", "+"}
    THEN IntOfDigits(Tail(c), c[1] = "-")
    ELSE IntOfDigits(c, FALSE)

IntOfStr(s) == IntOfStripped(Strip(s))

\* int(x) for a scalar x
PyInt(x) ==
    CASE x.t = "int" -> Ok(x.n)
      [] x.t = "bool" -> Ok(x.n)
      [] x.t = "float" -> Ok(Trunc(x.n, x.d))
      [] x.t = "str" -> IntOfStr(x.s)
      [] OTHER -> Raise("TypeError")

\* len(v)
PyLen(v) ==
    CASE v.kind = "list" -> Ok(Len(v.items))
      [] v.kind = "dict" -> Ok(Len(v.items))
      [] v.kind = "scalar" /\ v.x.t = "str" -> Ok(Len(v.x.s))
      [] OTHER -> Raise("TypeError")

\* iter(v): the elements map() visits (only used once len(v) succeeded)
PyIter(v) ==
    IF v.kind = "scalar"
    THEN [i \in 1..Len(v.x.s) |-> PyStr(<<v.x.s[i]>>)]
    ELSE v.items

\* the converted head h put before the converted rest r, unless r raised
Prepend(h, r) == IF ~r.ok THEN Raise(r.exc) ELSE Ok(<<h.v>> \o r.v)

\* list(map(int, xs)): the first failing conversion raises
RECURSIVE MapInt(_)
MapIntCons(h, rest) == IF ~h.ok THEN Raise(h.exc) ELSE Prepend(h, MapInt(rest))

MapInt(xs) ==
    IF Len(xs) = 0 THEN Ok(<<>>) ELSE MapIntCons(PyInt(Head(xs)), Tail(xs))

----------------------------------------------------------------------------
(* Attribute text: lexical tokens *)

\* number literal n / d: d = 1 is an integer literal, d = 10 a decimal literal
TNum(n, d) == [k |-> "num", n |-> n, d |-> d, s |-> <<>>, w |-> ""]
TStr(s) == [k |-> "str", n |-> 0, d |-> 1, s |-> s, w |-> ""]
TWord(w) == [k |-> "word", n |-> 0, d |-> 1, s |-> <<>>, w |-> w]
TSym(k) == [k |-> k, n |-> 0, d |-> 1, s |-> <<>>, w |-> ""]
LB == TSym("[")
RB == TSym("]")
LC == TSym("{")
RC == TSym("}")
COMMA == TSym(",")
COLON == TSym(":")
WS == TSym(" ")

RECURSIVE DropWs(_)
DropWs(toks) ==
    IF Len(toks) = 0 THEN <<>>
    ELSE (IF Head(toks) = WS THEN <<>> ELSE <<Head(toks)>>) \o DropWs(Tail(toks))

IsScalarTok(t) ==
    \/ t.k \in {"num", "str"}
    \/ t.k = "word" /\ t.w \in {"null", "true", "false"}

ScalarOfTok(t) ==
    CASE t.k = "num" /\ t.d = 1 -> PyInteger(t.n)
      [] t.k = "num" /\ t.d # 1 -> PyFloat(t.n, t.d)
      [] t.k = "str" -> PyStr(t.s)
      [] t.k = "word" /\ t.w = "null" -> PyNone
      [] OTHER -> PyBool(t.w = "true")

\* the inside of [ ... ]: scalars separated by commas
JsonArray(inner) ==
    IF Len(inner) = 0 THEN Ok(PyList(<<>>))
    ELSE IF /\ Len(inner) % 2 = 1
            /\ \A i \in 1..Len(inner) :
                 IF i % 2 = 1 THEN IsScalarTok(inner[i]) ELSE inner[i] = COMMA
    THEN Ok(PyList([i \in 1..((Len(inner) + 1) \div 2) |-> ScalarOfTok(inner[2 * i - 1])]))
    ELSE Raise("JSONDecodeError")

\* the inside of { ... }: "key": scalar pairs separated by commas, the keys
\* of the inputs all different
JsonObject(inner) ==
    IF Len(inner) = 0 THEN Ok(PyDict(<<>>))
    ELSE IF /\ Len(inner) % 4 = 3
            /\ \A i \in 1..Len(inner) :
                 (CASE i % 4 = 1 -> inner[i].k = "str"
                    [] i % 4 = 2 -> inner[i] = COLON
                    [] i % 4 = 3 -> IsScalarTok(inner[i])
                    [] OTHER -> inner[i] = COMMA)
            /\ \A p, q \in 1..((Len(inner) + 1) \div 4) :
                 p # q => inner[4 * p - 3] # inner[4 * q - 3]
    THEN Ok(PyDict([i \in 1..((Len(inner) + 1) \div 4) |-> PyStr(inner[4 * i - 3].s)]))
    ELSE Raise("JSONDecodeError")

\* a JSON text without the whitespace between its tokens
JsonValue(t) ==
    CASE Len(t) = 1 /\ IsScalarTok(t[1]) -> Ok(PyScalar(ScalarOfTok(t[1])))
      [] Len(t) >= 2 /\ t[1] = LB /\ t[Len(t)] = RB -> JsonArray(SubSeq(t, 2, Len(t) - 1))
      [] Len(t) >= 2 /\ t[1] = LC /\ t[Len(t)] = RC -> JsonObject(SubSeq(t, 2, Len(t) - 1))
      [] OTHER -> Raise("JSONDecodeError")

\* json.loads on a token sequence holding no nested array or object:
\* a scalar, a flat array of scalars or a flat object; anything else is a
\* JSONDecodeError
JsonLoads(toks) == JsonValue(DropWs(toks))

\* str.split(): the maximal runs of non-whitespace tokens
RECURSIVE SplitFrom(_, _, _)
SplitFrom(toks, cur, acc) ==
    IF Len(toks) = 0 THEN (IF Len(cur) > 0 THEN Append(acc, cur) ELSE acc)
    ELSE IF Head(toks) = WS
         THEN SplitFrom(Tail(toks), <<>>, IF Len(cur) > 0 THEN Append(acc, cur) ELSE acc)
         ELSE SplitFrom(Tail(toks), Append(cur, Head(toks)), acc)

Split(toks) == SplitFrom(toks, <<>>, <<>>)

\* int(chunk) for one chunk of split(): only an integer literal converts
IntOfChunk(chunk) ==
    IF Len(chunk) = 1 /\ chunk[1].k = "num" /\ chunk[1].d = 1
    THEN Ok(chunk[1].n)
    ELSE Raise("ValueError")

\* list(map(int, chunks)): the first failing conversion raises
RECURSIVE MapIntChunks(_)
MapIntChunksCons(h, rest) ==
    IF ~h.ok THEN Raise(h.exc) ELSE Prepend(h, MapIntChunks(rest))

MapIntChunks(cs) ==
    IF Len(cs) = 0 THEN Ok(<<>>) ELSE MapIntChunksCons(IntOfChunk(Head(cs)), Tail(cs))

----------------------------------------------------------------------------
(* Markup tree, as html.parser builds it: root nodes and their children *)

\* a child of a root element: a text node (tag "#text") or a nested element
\* holding one text node
Child(tag, chars, hasbbox, bbox) ==
    [tag |-> tag, chars |-> chars, hasbbox |-> hasbbox, bbox |-> bbox]
TextNode(chars) == Child("#text", chars, FALSE, <<>>)

\* a child of the soup: an element, or a bare text node (tag "#text")
Node(tag, hasbbox, bbox, haslabel, label, kids) ==
    [tag |-> tag, hasbbox |-> hasbbox, bbox |-> bbox,
     haslabel |-> haslabel, label |-> label, kids |-> kids]

IsDiv(node) == node.tag = "div"

\* a nested element seen as an element of its own
AsNode(c) == Node(c.tag, c.hasbbox, c.bbox, FALSE, "", <<TextNode(c.chars)>>)

\* (variant: find_all("div"), every div of the tree in document order)
RECURSIVE TopLevelDivsRecursive(_)
TopLevelDivsRecursive(markup) ==
    IF Len(markup) = 0 THEN <<>>
    ELSE (IF IsDiv(Head(markup)) THEN <<Head(markup)>> ELSE <<>>)
         \o [i \in 1..Len(SelectSeq(Head(markup).kids, IsDiv)) |->
                AsNode(SelectSeq(Head(markup).kids, IsDiv)[i])]
         \o TopLevelDivsRecursive(Tail(markup))

\* soup.find_all("div", recursive=False)
TopLevelDivs(markup) == SelectSeq(markup, IsDiv)

\* the labels the prompt asks the model to use
LabelVocabulary ==
    {"Caption", "Footnote", "Equation-Block", "List-Group", "Page-Header",
     "Page-Footer", "Image", "Section-Header", "Table", "Text", "Complex-Block",
     "Code-Block", "Form", "Table-Of-Contents", "Figure"}

\* (variant: a label outside the vocabulary is replaced by the default)
LabelValidated(div) ==
    IF div.haslabel /\ div.label \in LabelVocabulary THEN div.label ELSE "Text"

\* (variant: div.get("data-label"), no default for a missing attribute)
LabelDefaultNone(div) == IF div.haslabel THEN div.label ELSE "None"

\* div.get("data-label", "Text")
LabelOf(div) == IF div.haslabel THEN div.label ELSE "Text"

\* div.get_text(separator=" ", strip=True): every descendant string,
\* stripped, the empty ones skipped, joined by one space
GetText(div) ==
    Join(<<" ">>, SelectNonEmpty([i \in 1..Len(div.kids) |-> Strip(div.kids[i].chars)]))

----------------------------------------------------------------------------
(* parse_layout_blocks *)

\* exceptions the two except clauses catch
CaughtJson == {"JSONDecodeError", "AssertionError"}
CaughtSplit == {"ValueError", "AssertionError"}

\* assert len(bbox) == 4, l being len(bbox) or the TypeError it raised
AssertLen4(v, l) ==
    IF ~l.ok THEN Raise(l.exc)
    ELSE IF l.v # 4 THEN Raise("AssertionError")
    ELSE Ok(v)

LenChecked(j) == IF ~j.ok THEN Raise(j.exc) ELSE AssertLen4(j.v, PyLen(j.v))

\* try: bbox = json.loads(bbox_str); assert len(bbox) == 4
TryJson(bbox_str) == LenChecked(JsonLoads(bbox_str))

IntsChecked(m) ==
    IF ~m.ok THEN Raise(m.exc)
    ELSE IF Len(m.v) # 4 THEN Raise("AssertionError")
    ELSE Ok(PyList([i \in 1..Len(m.v) |-> PyInteger(m.v[i])]))

\* try: bbox = list(map(int, bbox_str.split())); assert len(bbox) == 4
TrySplit(bbox_str) == IntsChecked(MapIntChunks(Split(bbox_str)))

\* outcomes of the bbox parsing block: bbox = v, bbox = None, or an
\* exception that leaves parse_layout_blocks
BBoxOk(v) == [out |-> "ok", v |-> v, exc |-> ""]
BBoxNone == [out |-> "none", v |-> PyList(<<>>), exc |-> ""]
BBoxRaise(e) == [out |-> "raise", v |-> PyList(<<>>), exc |-> e]

\* except (ValueError, AssertionError): bbox = None
AfterSplit(w) ==
    IF w.ok THEN BBoxOk(w.v)
    ELSE IF w.exc \in CaughtSplit THEN BBoxNone
    ELSE BBoxRaise(w.exc)

\* except (json.JSONDecodeError, AssertionError): the whitespace format
AfterJson(bbox_str, j) ==
    IF j.ok THEN BBoxOk(j.v)
    ELSE IF j.exc \in CaughtJson THEN AfterSplit(TrySplit(bbox_str))
    ELSE BBoxRaise(j.exc)

\* bbox = None; if bbox_str: try ... except ... try ... except ...
ParseBBox(div) ==
    IF ~div.hasbbox \/ Len(div.bbox) = 0 THEN BBoxNone
    ELSE AfterJson(div.bbox, TryJson(div.bbox))

\* (variant: round(coordinate * scaler), to the nearest pixel)
ScaleCoordRound(c, dim) == (2 * c * dim + BBOX_SCALE) \div (2 * BBOX_SCALE)

\* int(coordinate * scaler), scaler = dim / BBOX_SCALE
ScaleCoord(c, dim) == Trunc(c * dim, BBOX_SCALE)

\* max(0, v)
ClampLow(v) == IF v > 0 THEN v ELSE 0

\* (variant: the upper clamp forgotten)
ClampHighNone(v, limit) == v

\* min(v, limit)
ClampHigh(v, limit) == IF v < limit THEN v ELSE limit

\* the box survives "if width <= 0 or height <= 0: continue"
BoxKept(width, height) == ~(width <= 0 \/ height <= 0)

Block(txt, x, y, width, height, label) ==
    [text |-> txt, x |-> x, y |-> y, width |-> width, height |-> height,
     label |-> label, estimated |-> FALSE]

NoBlock == Block(<<>>, 0, 0, 0, 0, "")

\* outcomes of one iteration of the loop over top_level_divs
Emit(block) == [out |-> "emit", block |-> block, exc |-> ""]
Skip == [out |-> "skip", block |-> NoBlock, exc |-> ""]
Abort(e) == [out |-> "raise", block |-> NoBlock, exc |-> e]

\* (variant: "if text:" forgotten, a block is appended whatever its text)
EmitBlockAnyText(txt, label, x1, y1, x2, y2) ==
    IF BoxKept(x2 - x1, y2 - y1)
    THEN Emit(Block(txt, x1, y1, x2 - x1, y2 - y1, label))
    ELSE Skip

\* width, height; the two "continue" tests; blocks.append
EmitBlock(txt, label, x1, y1, x2, y2) ==
    IF BoxKept(x2 - x1, y2 - y1) /\ Len(txt) > 0
    THEN Emit(Block(txt, x1, y1, x2 - x1, y2 - y1, label))
    ELSE Skip

\* bbox = list(map(int, bbox)), then scaling and clamping
ScaleBBox(div, m, image_width, image_height) ==
    IF ~m.ok THEN Abort(m.exc)
    ELSE EmitBlock(GetText(div), LabelOf(div),
                   ClampLow(ScaleCoord(m.v[1], image_width)),
                   ClampLow(ScaleCoord(m.v[2], image_height)),
                   ClampHigh(ScaleCoord(m.v[3], image_width), image_width),
                   ClampHigh(ScaleCoord(m.v[4], image_height), image_height))

\* if not bbox: continue
ConvertBBox(div, b, image_width, image_height) ==
    IF b.out = "raise" THEN Abort(b.exc)
    ELSE IF b.out = "none" THEN Skip
    ELSE ScaleBBox(div, MapInt(PyIter(b.v)), image_width, image_height)

\* one iteration of the loop over top_level_divs
ParseDiv(div, image_width, image_height) ==
    ConvertBBox(div, ParseBBox(div), image_width, image_height)

\* the blocks of the iteration h before those of the later iterations r
AppendBlocks(h, r) ==
    IF ~r.ok THEN Raise(r.exc)
    ELSE Ok((IF h.out = "emit" THEN <<h.block>> ELSE <<>>) \o r.v)

\* the loop: the first raising iteration ends the call, its blocks lost
RECURSIVE ParseDivs(_, _, _)
ParseDivsCons(h, rest, image_width, image_height) ==
    IF h.out = "raise" THEN Raise(h.exc)
    ELSE AppendBlocks(h, ParseDivs(rest, image_width, image_height))

ParseDivs(divs, image_width, image_height) ==
    IF Len(divs) = 0 THEN Ok(<<>>)
    ELSE ParseDivsCons(ParseDiv(Head(divs), image_width, image_height), Tail(divs),
                       image_width, image_height)

\* parse_layout_blocks(raw_html, image_width, image_height); bs4 tells
\* whether "from bs4 import BeautifulSoup" succeeds
ParseLayoutBlocks(markup, image_width, image_height, bs4) ==
    IF ~bs4 THEN Raise("ImportError")
    ELSE ParseDivs(TopLevelDivs(markup), image_width, image_height)

----------------------------------------------------------------------------
(* extract_text_from_html *)

\* re.sub(r'\s+', ' ', s): every run of whitespace becomes one space
RECURSIVE Collapse(_)
Collapse(s) ==
    IF Len(s) = 0 THEN <<>>
    ELSE IF Head(s) \in Whitespace
         THEN IF Len(s) > 1 /\ s[2] \in Whitespace
              THEN Collapse(Tail(s))
              ELSE <<" ">> \o Collapse(Tail(s))
         ELSE <<Head(s)>> \o Collapse(Tail(s))

RECURSIVE Flatten(_)
Flatten(ss) == IF Len(ss) = 0 THEN <<>> ELSE Head(ss) \o Flatten(Tail(ss))

\* re.sub(r'<[^>]+>', ' ', raw_html): each tag of the markup becomes one
\* space, the text between the tags stays
TagsStripped(markup) ==
    LET kid(c) == IF c.tag = "#text" THEN c.chars ELSE <<" ">> \o c.chars \o <<" ">>
        node(n) == IF n.tag = "#text" THEN Flatten([i \in 1..Len(n.kids) |-> n.kids[i].chars])
                   ELSE <<" ">> \o Flatten([i \in 1..Len(n.kids) |-> kid(n.kids[i])]) \o <<" ">>
    IN  Flatten([i \in 1..Len(markup) |-> node(markup[i])])

\* text.split('\n'), stripped, the empty lines dropped: after the collapse
\* no newline is left, so there is at most one line
DegradedLines(t) == IF Len(Strip(t)) > 0 THEN <<Strip(t)>> ELSE <<>>

\* (variant: the texts joined by a blank)
TextAndLinesSpace(texts) == [text |-> Join(<<" ">>, texts), lines |-> texts]

\* texts = the non-empty get_text of each div; "\n".join(texts), texts
TextAndLines(texts) == [text |-> Join(<<"\n">>, texts), lines |-> texts]

StructuredText(divs) ==
    TextAndLines(SelectNonEmpty([i \in 1..Len(divs) |-> GetText(divs[i])]))

\* the branch without BeautifulSoup: text, lines
DegradedText(t) == [text |-> t, lines |-> DegradedLines(t)]

\* extract_text_from_html(raw_html): [text, lines]
ExtractTextFromHtml(markup, bs4) ==
    IF bs4 THEN StructuredText(TopLevelDivs(markup))
    ELSE DegradedText(Strip(Collapse(TagsStripped(markup))))

----------------------------------------------------------------------------
(* resize_image_if_needed *)

RECURSIVE GCD(_, _)
GCD(a, b) == IF b = 0 THEN a ELSE GCD(b, a % b)

\* (variant: "<" for "<=", an image of exactly max_pixels is resized)
FitsBudgetStrict(w, h, max_pixels) == w * h < max_pixels

\* if total_pixels <= max_pixels
FitsBudget(w, h, max_pixels) == w * h <= max_pixels

\* (variant: the scaled side rounded up)
ScaledSideCeil(side, other, max_pixels) ==
    LET g == GCD(side, other)
        a == side \div g
        b == other \div g
    IN  CHOOSE n \in 0..side :
            /\ n * n * b >= a * max_pixels
            /\ n = 0 \/ (n - 1) * (n - 1) * b < a * max_pixels

\* (variant: each axis clipped on its own to the square root of max_pixels)
ScaledSideClipped(side, other, max_pixels) ==
    CHOOSE n \in 0..side :
        /\ n * n <= max_pixels
        /\ n = side \/ (n + 1) * (n + 1) > max_pixels

\* int(side * scale), scale = (max_pixels / (side * other)) ** 0.5:
\* the largest n with n * n * other <= side * max_pixels, both sides of the
\* comparison divided by gcd(side, other) to stay within machine integers
ScaledSide(side, other, max_pixels) ==
    LET g == GCD(side, other)
        a == side \div g
        b == other \div g
    IN  CHOOSE n \in 0..side :
            /\ n * n * b <= a * max_pixels
            /\ (n + 1) * (n + 1) * b > a * max_pixels

\* the (width, height) resize_image_if_needed reports for a decoded image
NewDims(w, h, max_pixels) ==
    IF FitsBudget(w, h, max_pixels) THEN <<w, h>>
    ELSE <<ScaledSide(w, h, max_pixels), ScaledSide(h, w, max_pixels)>>

\* Path(image_path).parent / f"resized_{Path(image_path).name}"
TempPath(image_path) == "resized_" \o image_path

----------------------------------------------------------------------------
(* Inputs *)

ImagePaths == {"page.jpg"}

\* img.size of the decodable input images
ImageSizes ==
    {<<1000, 500>>, <<800, 600>>, <<3, 2>>, <<4096, 2048>>, <<4000, 4000>>, <<1000, 1>>}

\* max_pixels arguments of the direct calls: the default and smaller budgets
Budgets == {1, 6, 100, MAX_PIXELS}

Hello == <<"a", "b">>

\* data-bbox attribute texts
BboxJson4 == <<LB, TNum(0, 1), COMMA, TNum(0, 1), COMMA, WS, TNum(512, 1), COMMA, TNum(512, 1), RB>>
BboxSplit4 == <<TNum(0, 1), WS, TNum(0, 1), WS, TNum(2000, 1), WS, TNum(2000, 1)>>
BboxInner == <<LB, TNum(-3, 1), COMMA, TNum(200, 1), COMMA, TNum(300, 1), COMMA, TNum(1024, 1), RB>>
BboxFloats == <<LB, TNum(-19, 10), COMMA, TNum(19, 10), COMMA, TNum(6007, 10), COMMA, TNum(7005, 10), RB>>
BboxZeroArea == <<LB, TNum(5, 1), COMMA, TNum(5, 1), COMMA, TNum(5, 1), COMMA, TNum(900, 1), RB>>
BboxScalar == <<TNum(5, 1)>>
BboxJson3 == <<LB, TNum(1, 1), COMMA, TNum(2, 1), COMMA, TNum(3, 1), RB>>
BboxWords == <<LB, TStr(<<"a">>), COMMA, TNum(1, 1), COMMA, TNum(2, 1), COMMA, TNum(3, 1), RB>>
BboxString == <<TStr(<<"a", "b", "c", "d">>)>>
BboxObject == <<LC, TStr(<<"a">>), COLON, TNum(1, 1), COMMA, TStr(<<"b">>), COLON, TNum(2, 1), COMMA,
                TStr(<<"c">>), COLON, TNum(3, 1), COMMA, TStr(<<"d">>), COLON, TNum(4, 1), RC>>
BboxSplitFloat == <<TNum(15, 10), WS, TNum(2, 1), WS, TNum(300, 1), WS, TNum(400, 1)>>
BboxGarbage == <<TWord("abc"), WS, TWord("def")>>

\* <div data-bbox="[0,0, 512,512]" data-label="Text">ab</div>
ScenarioA == Node("div", TRUE, BboxJson4, TRUE, "Text", <<TextNode(Hello)>>)

\* <div data-bbox="0 0 2000 2000"> a <p>b </p></div>
ScenarioB ==
    Node("div", TRUE, BboxSplit4, FALSE, "",
         <<TextNode(<<" ", "a">>), TextNode(<<" ">>), Child("p", <<"b", " ">>, FALSE, <<>>)>>)

\* <div data-bbox="[-3,200,300,1024]" data-label="">a<div data-bbox="[0,0, 512,512]">b</div></div>
NestedInBlock ==
    Node("div", TRUE, BboxInner, TRUE, "", <<TextNode(<<"a">>), Child("div", <<"b">>, TRUE, BboxJson4)>>)

\* <div data-label="Text">ab<div data-bbox="[0,0, 512,512]">b</div></div>
NestedInDropped ==
    Node("div", FALSE, <<>>, TRUE, "Text", <<TextNode(Hello), Child("div", <<"b">>, TRUE, BboxJson4)>>)

\* <p data-bbox="[0,0, 512,512]" data-label="Text">ab<div data-bbox="[0,0, 512,512]">b</div></p>
NestedInParagraph ==
    Node("p", TRUE, BboxJson4, TRUE, "Text", <<TextNode(Hello), Child("div", <<"b">>, TRUE, BboxJson4)>>)

\* <div data-bbox="[0,0, 512,512]" data-label="Text"> \n</div>
BlankBlock == Node("div", TRUE, BboxJson4, TRUE, "Text", <<TextNode(<<" ", "\n">>)>>)

\* <div data-bbox="[-1.9,1.9,600.7,700.5]" data-label="Sidebar">ab</div>
UnknownLabel == Node("div", TRUE, BboxFloats, TRUE, "Sidebar", <<TextNode(Hello)>>)

\* <div data-bbox="" data-label="Text">ab</div>
EmptyBbox == Node("div", TRUE, <<>>, TRUE, "Text", <<TextNode(Hello)>>)

\* <div data-bbox="1.5 2 300 400" data-label="Text">ab</div>
BlankSeparatedFloat == Node("div", TRUE, BboxSplitFloat, TRUE, "Text", <<TextNode(Hello)>>)

\* the children of the soup the inference output is built from
Nodes ==
    { ScenarioA,
      ScenarioB,
      NestedInBlock,
      UnknownLabel,
      BlankBlock,
      Node("div", TRUE, BboxZeroArea, TRUE, "Text", <<TextNode(Hello)>>),
      NestedInDropped,
      EmptyBbox,
      Node("div", TRUE, BboxScalar, TRUE, "Text", <<TextNode(Hello)>>),
      Node("div", TRUE, BboxJson3, TRUE, "Text", <<TextNode(Hello)>>),
      Node("div", TRUE, BboxWords, TRUE, "Text", <<TextNode(Hello)>>),
      Node("div", TRUE, BboxString, TRUE, "Text", <<TextNode(Hello)>>),
      Node("div", TRUE, BboxObject, TRUE, "Text", <<TextNode(Hello)>>),
      BlankSeparatedFloat,
      Node("div", TRUE, BboxGarbage, TRUE, "Text", <<TextNode(Hello)>>),
      NestedInParagraph,
      Node("#text", FALSE, <<>>, FALSE, "", <<TextNode(<<"b">>)>>) }

\* the markups the inference call may return
Markups == UNION {[1..n -> Nodes] : n \in 0..MaxDivs}

----------------------------------------------------------------------------
(* Results of run_inference *)

NoResult ==
    [keys |-> {}, success |-> FALSE, error |-> "", text |-> <<>>, lines |-> <<>>,
     bounding_boxes |-> <<>>, confidence |-> 0, image_size |-> <<0, 0>>,
     raw_html |-> <<>>]

\* (variant: the validation failure also reports an image size)
FailureWithSize(error) ==
    [NoResult EXCEPT !.keys = {"success", "error", "image_size"}, !.error = error]

\* {"success": False, "error": ...}
Failure(error) ==
    [NoResult EXCEPT !.keys = {"success", "error"}, !.error = error]

\* (variant: the except clause hands back the markup read so far)
CaughtWithMarkup(e) ==
    [NoResult EXCEPT !.keys = {"success", "error", "traceback", "raw_html"}, !.error = e]

\* the except clause: {"success": False, "error": str(e), "traceback": ...}
Caught(e) ==
    [NoResult EXCEPT !.keys = {"success", "error", "traceback"}, !.error = e]

SuccessKeys ==
    {"success", "text", "lines", "bounding_boxes", "confidence", "processing_time",
     "load_time", "generation_time", "tokens_per_second", "peak_memory_gb",
     "image_size", "raw_html"}

\* the dict of the return statement that ends the try block
Success(t, ls, boxes, conf, size, raw) ==
    [keys |-> SuccessKeys, success |-> TRUE, error |-> "", text |-> t, lines |-> ls,
     bounding_boxes |-> boxes, confidence |-> conf, image_size |-> size,
     raw_html |-> raw]

\* main's usage message
Usage == Failure("Usage: python3 chandra_inference.py <image_path>")

EmptyCache == [model |-> "None", processor |-> "None"]

\* the callers that run load_model concurrently in one process
Callers == {"A", "B"}

\* the k-th object mlx_vlm.load hands out in this process
Handle(kind, k) == IF k <= 1 THEN kind ELSE kind \o ToString(k)

\* [box["text"] for box in bounding_boxes]
BoxTexts(boxes) == [i \in 1..Len(boxes) |-> boxes[i].text]

\* (variant: the confidence does not look at the boxes)
ConfidenceAlwaysHigh(boxes) == CONF_HIGH

\* confidence = 0.95 if bounding_boxes else 0.7
ConfidenceOf(boxes) == IF Len(boxes) > 0 THEN CONF_HIGH ELSE CONF_LOW

\* (variant: sys.exit(0) whatever the result)
ExitStatusZero(res) == 0

\* sys.exit(0 if result.get("success") else 1)
ExitStatus(res) == IF res.success THEN 0 ELSE 1

----------------------------------------------------------------------------
(* The process *)

NoResize == [path |-> "", dims |-> <<0, 0>>]

\* a process before its first call: who drives it, and with which budget
Start(entries, budgets) ==
    /\ pc = "idle"
    /\ entry \in entries
    /\ maxPixels \in budgets
    /\ prevRet = NoResize
    /\ lpc = [c \in Callers |-> "idle"]
    /\ lloc = [c \in Callers |-> EmptyCache]
    /\ lret = [c \in Callers |-> EmptyCache]
    /\ env \in [pil : BOOLEAN, bs4 : BOOLEAN]
    /\ runs = 0
    /\ cache = EmptyCache
    /\ cache0 = EmptyCache
    /\ loads = 0
    /\ files = {}
    /\ files0 = {}
    /\ imagePath = ""
    /\ origDims = <<0, 0>>
    /\ resizeRet = NoResize
    /\ genCalls = <<>>
    /\ raw_html = <<>>
    /\ parseArgs = <<>>
    /\ bounding_boxes = <<>>
    /\ fallbackCalls = 0
    /\ text = <<>>
    /\ lines = <<>>
    /\ confidence = 0
    /\ raised = <<>>
    /\ trace = <<>>
    /\ result = NoResult
    /\ stdout = <<>>
    /\ uncaught = ""
    /\ exitCode = -1

\* main, or a host calling run_inference: max_pixels is the default
Init == Start({"main", "lib"}, {MAX_PIXELS})

\* a host calling resize_image_if_needed itself, with a budget of its own
InitResize == Start({"resize"}, Budgets)

\* the state of the concurrent callers of load_model
threads == <<lpc, lloc, lret>>

process == <<entry, env, cache, loads, files, stdout, maxPixels, prevRet, threads>>
locals == <<imagePath, origDims, resizeRet, genCalls, raw_html, parseArgs,
            bounding_boxes, fallbackCalls, text, lines, confidence, raised>>

\* the current run did e
Did(e) == trace' = Append(trace, e)

\* main: len(sys.argv) < 2
MainUsage ==
    /\ pc = "idle" /\ entry = "main" /\ runs = 0
    /\ stdout' = Append(stdout, Usage)
    /\ exitCode' = 1
    /\ pc' = "exited"
    /\ UNCHANGED <<entry, env, runs, cache, cache0, loads, files, files0, locals,
                   trace, result, uncaught, maxPixels, prevRet, threads>>

\* run_inference(image_path) is entered: by main with sys.argv[1], or by a
\* host that imported the module
CallRunInference ==
    /\ pc = "idle"
    /\ IF entry = "main" THEN runs = 0 ELSE runs < MaxRuns
    /\ \E p \in ImagePaths : imagePath' = p
    /\ runs' = runs + 1
    /\ cache0' = cache
    /\ files0' = files
    /\ origDims' = <<0, 0>>
    /\ resizeRet' = NoResize
    /\ genCalls' = <<>>
    /\ raw_html' = <<>>
    /\ parseArgs' = <<>>
    /\ bounding_boxes' = <<>>
    /\ fallbackCalls' = 0
    /\ text' = <<>>
    /\ lines' = <<>>
    /\ confidence' = 0
    /\ raised' = <<>>
    /\ trace' = <<>>
    /\ result' = NoResult
    /\ pc' = "check_image"
    /\ UNCHANGED <<process, uncaught, exitCode>>

\* a return statement of run_inference
Return(res) ==
    /\ result' = res
    /\ pc' = "returned"

\* an exception raised inside the try block reaches "except Exception as e"
Except(e) ==
    /\ raised' = Append(raised, e)
    /\ Return(Caught(e))

\* if not Path(image_path).exists()
CheckImage ==
    /\ pc = "check_image"
    /\ \E exists \in BOOLEAN :
         IF exists THEN Did("image_exists") /\ pc' = "check_model" /\ UNCHANGED result
         ELSE Did("image_missing") /\ Return(Failure("Image non trouvee"))
    /\ UNCHANGED <<process, runs, cache0, files0, locals, uncaught, exitCode>>

\* if not MODEL_PATH.exists()
CheckModel ==
    /\ pc = "check_model"
    /\ \E exists \in BOOLEAN :
         IF exists THEN Did("model_exists") /\ pc' = "resize" /\ UNCHANGED result
         ELSE Did("model_missing") /\ Return(Failure("Modele non trouve"))
    /\ UNCHANGED <<process, runs, cache0, files0, locals, uncaught, exitCode>>

\* an exception leaves run_inference: the statement is outside the try block
Propagate(e) ==
    /\ uncaught' = e
    /\ pc' = "unwound"

\* where the caller of resize_image_if_needed goes on: run_inference to
\* load_model, the host that called it directly to its own code
AfterResize == IF entry = "resize" THEN "resized" ELSE "load"

\* processed_image_path, (image_width, image_height) = resize_image_if_needed(image_path)
\* PIL missing: the sentinel; Image.open fails: the exception leaves the
\* function; small image: unchanged; large image: resized and saved, and
\* img.resize raises ValueError when a computed side is 0
ResizeImageIfNeeded ==
    /\ pc = "resize"
    /\ IF ~env.pil
       THEN /\ Did("pil_missing")
            /\ resizeRet' = [path |-> imagePath, dims |-> <<0, 0>>]
            /\ pc' = AfterResize
            /\ UNCHANGED <<origDims, files, uncaught>>
       ELSE \/ /\ Did("open_failed")
               /\ Propagate("UnidentifiedImageError")
               /\ UNCHANGED <<origDims, resizeRet, files>>
            \/ \E size \in ImageSizes : \E d \in {NewDims(size[1], size[2], maxPixels)} :
                 /\ origDims' = size
                 /\ IF FitsBudget(size[1], size[2], maxPixels)
                    THEN /\ Did("opened")
                         /\ resizeRet' = [path |-> imagePath, dims |-> size]
                         /\ pc' = AfterResize
                         /\ UNCHANGED <<files, uncaught>>
                    ELSE IF d[1] < 1 \/ d[2] < 1
                    THEN /\ Did("resize_failed")
                         /\ Propagate("ValueError")
                         /\ UNCHANGED <<resizeRet, files>>
                    ELSE \/ /\ Did("saved")
                            /\ files' = files \cup {TempPath(imagePath)}
                            /\ resizeRet' = [path |-> TempPath(imagePath), dims |-> d]
                            /\ pc' = AfterResize
                            /\ UNCHANGED uncaught
                         \/ /\ Did("save_failed")
                            /\ Propagate("OSError")
                            /\ UNCHANGED <<resizeRet, files>>
    /\ UNCHANGED <<entry, env, cache, loads, stdout, runs, cache0, files0, imagePath,
                   genCalls, raw_html, parseArgs, bounding_boxes, fallbackCalls, text,
                   lines, confidence, raised, result, exitCode, maxPixels, prevRet, threads>>

\* (variant: the cache is filled and never consulted)
CacheHitNever == FALSE

\* if _model_cache["model"] is not None
CacheHit == cache.model # "None"

\* load_model(): the cached pair, or mlx_vlm.load and the cache filled; a
\* load that raises leaves the cache as it was
LoadModel ==
    /\ pc = "load"
    /\ IF CacheHit
       THEN /\ Did("cached")
            /\ pc' = "generate"
            /\ UNCHANGED <<cache, loads, raised, result>>
       ELSE \/ /\ Did("loaded")
               /\ loads' = loads + 1
               /\ cache' = [model |-> "model", processor |-> "processor"]
               /\ pc' = "generate"
               /\ UNCHANGED <<raised, result>>
            \/ /\ Did("load_failed")
               /\ loads' = loads + 1
               /\ Except("LoadError")
               /\ UNCHANGED cache
    /\ UNCHANGED <<entry, env, files, stdout, runs, cache0, files0, imagePath, origDims,
                   resizeRet, genCalls, raw_html, parseArgs, bounding_boxes,
                   fallbackCalls, text, lines, confidence, uncaught, exitCode,
                   maxPixels, prevRet, threads>>

\* (variant: image=image_path, the original file)
InferenceImageOriginal == imagePath

\* image=processed_image_path
InferenceImage == resizeRet.path

\* the (image_width, image_height) unpacked from resize_image_if_needed's result
ImageDims == resizeRet.dims

\* output = generate(model, processor, image=processed_image_path, ...)
Generate ==
    /\ pc = "generate"
    /\ Did("generate")
    /\ genCalls' = Append(genCalls, InferenceImage)
    /\ \/ \E m \in Markups :
            /\ raw_html' = m
            /\ pc' = "parse"
            /\ UNCHANGED <<raised, result>>
       \/ /\ Except("InferenceError")
          /\ UNCHANGED raw_html
    /\ UNCHANGED <<process, runs, cache0, files0, imagePath, origDims, resizeRet,
                   parseArgs, bounding_boxes, fallbackCalls, text, lines, confidence,
                   uncaught, exitCode>>

\* bounding_boxes = parse_layout_blocks(raw_html, image_width, image_height)
Parse ==
    /\ pc = "parse"
    /\ Did("parse")
    /\ parseArgs' = Append(parseArgs, ImageDims)
    /\ \E r \in {ParseLayoutBlocks(raw_html, ImageDims[1], ImageDims[2], env.bs4)} :
           IF r.ok
           THEN /\ bounding_boxes' = r.v
                /\ pc' = "assemble"
                /\ UNCHANGED <<raised, result>>
           ELSE /\ Except(r.exc)
                /\ UNCHANGED bounding_boxes
    /\ UNCHANGED <<process, runs, cache0, files0, imagePath, origDims, resizeRet,
                   genCalls, raw_html, fallbackCalls, text, lines, confidence,
                   uncaught, exitCode>>

\* if bounding_boxes: text, lines from the boxes; else extract_text_from_html;
\* then confidence
Assemble ==
    /\ pc = "assemble"
    /\ IF Len(bounding_boxes) > 0
       THEN /\ text' = Join(<<"\n">>, BoxTexts(bounding_boxes))
            /\ lines' = BoxTexts(bounding_boxes)
            /\ UNCHANGED <<fallbackCalls, trace>>
       ELSE \E r \in {ExtractTextFromHtml(raw_html, env.bs4)} :
                /\ Did("fallback")
                /\ fallbackCalls' = fallbackCalls + 1
                /\ text' = r.text
                /\ lines' = r.lines
    /\ confidence' = ConfidenceOf(bounding_boxes)
    /\ pc' = "package"
    /\ UNCHANGED <<process, runs, cache0, files0, imagePath, origDims, resizeRet,
                   genCalls, raw_html, parseArgs, bounding_boxes, raised, result,
                   uncaught, exitCode>>

\* return {"success": True, ...}
Package ==
    /\ pc = "package"
    /\ Return(Success(text, lines, bounding_boxes, confidence, ImageDims, raw_html))
    /\ UNCHANGED <<process, runs, cache0, files0, locals, trace, uncaught, exitCode>>

\* main: print(json.dumps(result, ...))
MainPrint ==
    /\ pc = "returned" /\ entry = "main"
    /\ stdout' = Append(stdout, result)
    /\ pc' = "printed"
    /\ UNCHANGED <<entry, env, cache, loads, files, runs, cache0, files0, locals,
                   trace, result, uncaught, exitCode, maxPixels, prevRet, threads>>

\* main: sys.exit(0 if result.get("success") else 1)
MainExit ==
    /\ pc = "printed"
    /\ exitCode' = ExitStatus(result)
    /\ pc' = "exited"
    /\ UNCHANGED <<process, runs, cache0, files0, locals, trace, result, uncaught>>

\* the host that called run_inference has its result and may call again
HostReturn ==
    /\ pc = "returned" /\ entry = "lib"
    /\ pc' = "idle"
    /\ UNCHANGED <<process, runs, cache0, files0, locals, trace, result, uncaught,
                   exitCode>>

\* an exception nothing catches ends the interpreter: traceback on stderr,
\* nothing on stdout, exit status 1
Die ==
    /\ pc = "unwound"
    /\ exitCode' = 1
    /\ pc' = "exited"
    /\ UNCHANGED <<process, runs, cache0, files0, locals, trace, result, uncaught>>

Next ==
    \/ MainUsage
    \/ CallRunInference
    \/ CheckImage
    \/ CheckModel
    \/ ResizeImageIfNeeded
    \/ LoadModel
    \/ Generate
    \/ Parse
    \/ Assemble
    \/ Package
    \/ MainPrint
    \/ MainExit
    \/ HostReturn
    \/ Die

Spec == Init /\ [][Next]_vars

\* a host calls resize_image_if_needed(image_path, max_pixels): on an image
\* of its own, or on the path its previous call returned
CallResize ==
    /\ pc = "idle" /\ entry = "resize" /\ runs < MaxRuns
    /\ \E p \in ImagePaths \cup ({resizeRet.path} \ {""}) : imagePath' = p
    /\ prevRet' = resizeRet
    /\ runs' = runs + 1
    /\ files0' = files
    /\ origDims' = <<0, 0>>
    /\ resizeRet' = NoResize
    /\ trace' = <<>>
    /\ pc' = "resize"
    /\ UNCHANGED <<entry, env, cache, cache0, loads, files, stdout, maxPixels, threads,
                   genCalls,
                   raw_html, parseArgs, bounding_boxes, fallbackCalls, text, lines,
                   confidence, raised, result, uncaught, exitCode>>

\* the host has the (path, (width, height)) pair and may call again
ResizeDone ==
    /\ pc = "resized" /\ entry = "resize"
    /\ pc' = "idle"
    /\ UNCHANGED <<process, runs, cache0, files0, locals, trace, result, uncaught,
                   exitCode>>

NextResize ==
    \/ CallResize
    \/ ResizeImageIfNeeded
    \/ ResizeDone
    \/ Die

SpecResize == InitResize /\ [][NextResize]_vars

\* two callers in load_model at once, one statement at a time
InitLoad == Start({"threads"}, {MAX_PIXELS}) /\ env = [pil |-> TRUE, bs4 |-> TRUE]

\* what a step of a caller of load_model leaves alone
sequential == <<pc, entry, runs, cache0, files, files0, locals, trace, result, stdout,
                uncaught, exitCode, env, maxPixels, prevRet>>

\* caller c calls load_model()
EnterLoadModel(c) ==
    /\ lpc[c] = "idle"
    /\ lpc' = [lpc EXCEPT ![c] = "test"]
    /\ UNCHANGED <<sequential, cache, loads, lloc, lret>>

\* if _model_cache["model"] is not None
TestCache(c) ==
    /\ lpc[c] = "test"
    /\ lpc' = [lpc EXCEPT ![c] = IF CacheHit THEN "hit" ELSE "load"]
    /\ UNCHANGED <<sequential, cache, loads, lloc, lret>>

\* return _model_cache["model"], _model_cache["processor"]
ReturnCached(c) ==
    /\ lpc[c] = "hit"
    /\ lret' = [lret EXCEPT ![c] = cache]
    /\ lpc' = [lpc EXCEPT ![c] = "done"]
    /\ UNCHANGED <<sequential, cache, loads, lloc>>

\* model, processor = load(str(MODEL_PATH)): a fresh pair, or an exception
\* that leaves load_model
CallLoad(c) ==
    /\ lpc[c] = "load"
    /\ loads' = loads + 1
    /\ \/ /\ lloc' = [lloc EXCEPT ![c] = [model |-> Handle("model", loads + 1),
                                           processor |-> Handle("processor", loads + 1)]]
          /\ lpc' = [lpc EXCEPT ![c] = "store_model"]
       \/ /\ lpc' = [lpc EXCEPT ![c] = "raised"]
          /\ UNCHANGED lloc
    /\ UNCHANGED <<sequential, cache, lret>>

\* _model_cache["model"] = model
StoreModel(c) ==
    /\ lpc[c] = "store_model"
    /\ cache' = [cache EXCEPT !.model = lloc[c].model]
    /\ lpc' = [lpc EXCEPT ![c] = "store_processor"]
    /\ UNCHANGED <<sequential, loads, lloc, lret>>

\* _model_cache["processor"] = processor
StoreProcessor(c) ==
    /\ lpc[c] = "store_processor"
    /\ cache' = [cache EXCEPT !.processor = lloc[c].processor]
    /\ lpc' = [lpc EXCEPT ![c] = "return"]
    /\ UNCHANGED <<sequential, loads, lloc, lret>>

\* return model, processor
ReturnLoaded(c) ==
    /\ lpc[c] = "return"
    /\ lret' = [lret EXCEPT ![c] = lloc[c]]
    /\ lpc' = [lpc EXCEPT ![c] = "done"]
    /\ UNCHANGED <<sequential, cache, loads, lloc>>

NextLoad ==
    \E c \in Callers :
        \/ EnterLoadModel(c)
        \/ TestCache(c)
        \/ ReturnCached(c)
        \/ CallLoad(c)
        \/ StoreModel(c)
        \/ StoreProcessor(c)
        \/ ReturnLoaded(c)

SpecLoad == InitLoad /\ [][NextLoad]_vars

----------------------------------------------------------------------------
(* Properties *)

Has(e) == \E i \in 1..Len(trace) : trace[i] = e

\* the blocks of the elements whose own iteration does not raise
RECURSIVE BlocksOfSound(_, _, _)
BlocksOfSound(divs, w, h) ==
    IF Len(divs) = 0 THEN <<>>
    ELSE (IF ParseDiv(Head(divs), w, h).out = "emit"
          THEN <<ParseDiv(Head(divs), w, h).block>> ELSE <<>>)
         \o BlocksOfSound(Tail(divs), w, h)

\* C1: for any markup parse_layout_blocks returns normally, and an element
\* whose data-bbox is missing, empty or not four numbers is dropped on its
\* own: the blocks of the other top-level elements are still emitted.
C1_InvalidBoxDroppedAlone ==
    (env.bs4 /\ Len(parseArgs) > 0) =>
        /\ raised = <<>>
        /\ bounding_boxes =
              BlocksOfSound(TopLevelDivs(raw_html), parseArgs[1][1], parseArgs[1][2])

\* C2: when the image file exists and cannot be decoded,
\* resize_image_if_needed returns the original path with the sentinel
\* (0, 0) and run_inference goes on to the inference step.
C2_UndecodableGivesSentinel ==
    Has("open_failed") =>
        /\ uncaught = ""
        /\ resizeRet = [path |-> imagePath, dims |-> <<0, 0>>]
        /\ pc \notin {"unwound", "exited"}

\* C3: every execution of main that ends in failure has printed one JSON
\* object with success = false and a non-empty error string.
C3_FailurePrintsJson ==
    (entry = "main" /\ pc = "exited" /\ exitCode # 0) =>
        /\ Len(stdout) = 1
        /\ {"success", "error"} \subseteq stdout[1].keys
        /\ ~stdout[1].success
        /\ stdout[1].error # ""

\* C4: every block parse_layout_blocks emits lies inside the image it was
\* given and has a positive width and height.
C4_BoxesInsideImage ==
    \A i \in 1..Len(bounding_boxes) :
        /\ bounding_boxes[i].x >= 0
        /\ bounding_boxes[i].y >= 0
        /\ bounding_boxes[i].width > 0
        /\ bounding_boxes[i].height > 0
        /\ bounding_boxes[i].x + bounding_boxes[i].width <= parseArgs[1][1]
        /\ bounding_boxes[i].y + bounding_boxes[i].height <= parseArgs[1][2]

\* a box that reaches the right and bottom edges of the image it was cut to
C4_Witness ==
    /\ pc = "assemble"
    /\ \E i \in 1..Len(bounding_boxes) :
         /\ bounding_boxes[i].x + bounding_boxes[i].width = parseArgs[1][1]
         /\ bounding_boxes[i].y + bounding_boxes[i].height = parseArgs[1][2]
         /\ \E j \in 1..Len(raw_html) : raw_html[j] = ScenarioB

\* the reference of C5, read off the attribute text: four integer literals
\* in a JSON array, or four integer literals separated by single blanks
IsIntTok(t) == t.k = "num" /\ t.d = 1

JsonInts(toks) ==
    /\ Len(DropWs(toks)) = 9
    /\ DropWs(toks)[1] = LB /\ DropWs(toks)[9] = RB
    /\ \A i \in {2, 4, 6, 8} : IsIntTok(DropWs(toks)[i])
    /\ \A i \in {3, 5, 7} : DropWs(toks)[i] = COMMA

BlankInts(toks) ==
    /\ Len(toks) = 7
    /\ \A i \in {1, 3, 5, 7} : IsIntTok(toks[i])
    /\ \A i \in {2, 4, 6} : toks[i] = WS

IntegerBox(div) == div.hasbbox /\ (JsonInts(div.bbox) \/ BlankInts(div.bbox))

BoxInts(div) ==
    IF JsonInts(div.bbox)
    THEN [i \in 1..4 |-> DropWs(div.bbox)[2 * i].n]
    ELSE [i \in 1..4 |-> div.bbox[2 * i - 1].n]

Max(a, b) == IF a >= b THEN a ELSE b
Min(a, b) == IF a <= b THEN a ELSE b

\* x, y, width, height of the reference: floor, then clamp
RefX(c, w) == Max(0, (c[1] * w) \div BBOX_SCALE)
RefY(c, h) == Max(0, (c[2] * h) \div BBOX_SCALE)
RefBox(c, w, h) ==
    <<RefX(c, w), RefY(c, h),
      Min((c[3] * w) \div BBOX_SCALE, w) - RefX(c, w),
      Min((c[4] * h) \div BBOX_SCALE, h) - RefY(c, h)>>

HasText(div) == \E i \in 1..Len(div.kids) : ~IsBlank(div.kids[i].chars)

RECURSIVE RefBoxes(_, _, _)
RefBoxes(divs, w, h) ==
    IF Len(divs) = 0 THEN <<>>
    ELSE (IF /\ HasText(Head(divs))
             /\ RefBox(BoxInts(Head(divs)), w, h)[3] > 0
             /\ RefBox(BoxInts(Head(divs)), w, h)[4] > 0
          THEN <<RefBox(BoxInts(Head(divs)), w, h)>> ELSE <<>>)
         \o RefBoxes(Tail(divs), w, h)

BoxesOf(blocks) ==
    [i \in 1..Len(blocks) |->
        <<blocks[i].x, blocks[i].y, blocks[i].width, blocks[i].height>>]

ParsedAs(markup, size) ==
    /\ Len(parseArgs) > 0 /\ raised = <<>>
    /\ raw_html = markup /\ parseArgs[1] = size

\* C5: for top-level blocks with integer boxes and text, the emitted boxes
\* are the reference boxes: per-axis scaling with floor, then the clamp;
\* [0,0,512,512] on 1000x500 is (0,0,500,250) and "0 0 2000 2000" on
\* 800x600 is (0,0,800,600).
C5_BoxesEqualReference ==
    /\ ( /\ Len(parseArgs) > 0 /\ raised = <<>>
         /\ \A i \in 1..Len(TopLevelDivs(raw_html)) : IntegerBox(TopLevelDivs(raw_html)[i]) )
       => BoxesOf(bounding_boxes) =
             RefBoxes(TopLevelDivs(raw_html), parseArgs[1][1], parseArgs[1][2])
    /\ ParsedAs(<<ScenarioA>>, <<1000, 500>>)
       => BoxesOf(bounding_boxes) = <<<<0, 0, 500, 250>>>>
    /\ ParsedAs(<<ScenarioB>>, <<800, 600>>)
       => BoxesOf(bounding_boxes) = <<<<0, 0, 800, 600>>>>

\* scenario B has been parsed: the out-of-range box clamped to the image
C5_Witness ==
    /\ ParsedAs(<<ScenarioB>>, <<800, 600>>)
    /\ BoxesOf(bounding_boxes) = <<<<0, 0, 800, 600>>>>

\* C6: in a successful result the confidence is the high value and the
\* text and lines are the blocks' exactly when the parser returned a block;
\* with no block the fallback ran once and the confidence is the low value.
C6_ConfidenceIffBlocks ==
    result.success =>
        /\ result.bounding_boxes = bounding_boxes
        /\ Len(bounding_boxes) > 0 =>
              /\ result.confidence = CONF_HIGH
              /\ result.lines = BoxTexts(bounding_boxes)
              /\ result.text = Join(<<"\n">>, BoxTexts(bounding_boxes))
              /\ fallbackCalls = 0 /\ ~Has("fallback")
        /\ Len(bounding_boxes) = 0 =>
              /\ result.confidence = CONF_LOW
              /\ result.confidence # CONF_HIGH
              /\ fallbackCalls = 1 /\ Has("fallback")
              /\ result.lines = ExtractTextFromHtml(raw_html, TRUE).lines
              /\ result.text = ExtractTextFromHtml(raw_html, TRUE).text

\* a successful run without blocks whose text came from the fallback
C6_Witness ==
    /\ result.success
    /\ Len(result.bounding_boxes) = 0
    /\ fallbackCalls = 1
    /\ Len(result.lines) > 0
    /\ result.confidence = CONF_LOW

\* C7: a missing image or model directory gives a result of success = false
\* and an error and nothing else, with no file written, the cache untouched
\* and no inference call; the image is checked before the model.
C7_ValidationFailsEarly ==
    (Has("image_missing") \/ Has("model_missing")) =>
        /\ result.keys = {"success", "error"}
        /\ ~result.success
        /\ result.error # ""
        /\ files = files0
        /\ cache = cache0
        /\ genCalls = <<>>
        /\ trace \in {<<"image_missing">>, <<"image_exists", "model_missing">>}
        /\ Has("image_missing") => result.error = "Image non trouvee"

\* the model directory is missing in a process whose cache is filled
C7_Witness ==
    /\ trace = <<"image_exists", "model_missing">>
    /\ pc = "returned"
    /\ cache0.model # "None"
    /\ files0 # {}

\* C8: an exception raised in the try block is caught in run_inference and
\* turned into success = false with its description and none of the
\* success fields; the inference call is made at most once per run.
C8_ExceptionsCaught ==
    /\ Len(genCalls) <= 1
    /\ Len(raised) > 0 =>
          /\ Len(raised) = 1
          /\ uncaught = ""
          /\ result.keys = {"success", "error", "traceback"}
          /\ ~result.success
          /\ result.error = raised[1]
          /\ result.keys \cap {"text", "lines", "bounding_boxes", "confidence",
                               "image_size"} = {}

\* the parser raised after the one inference call of the run
C8_Witness ==
    /\ raised = <<"TypeError">>
    /\ Len(genCalls) = 1
    /\ pc = "returned"
    /\ ~result.success

\* C9: main exits with status 0 exactly when the run's result has
\* success = true, and with status 1 otherwise, a missing argument included.
C9_ExitStatus ==
    (entry = "main" /\ pc = "exited") =>
        /\ exitCode \in {0, 1}
        /\ exitCode = 0 <=> result.success
        /\ runs = 0 => exitCode = 1

\* main has exited with status 0 after a successful run
C9_Witness ==
    /\ entry = "main" /\ pc = "exited"
    /\ exitCode = 0
    /\ result.success

\* C10: the inference call reads the path, and the parser and the result
\* get the dimensions, that resize_image_if_needed returned; after a
\* downscale these are the resized file and the resized dimensions.
C10_ResizedArtifactUsed ==
    /\ \A i \in 1..Len(genCalls) : genCalls[i] = resizeRet.path
    /\ \A i \in 1..Len(parseArgs) : parseArgs[i] = resizeRet.dims
    /\ result.success => result.image_size = resizeRet.dims
    /\ Has("saved") =>
          /\ resizeRet.path = TempPath(imagePath)
          /\ resizeRet.path \in files
          /\ \A i \in 1..Len(genCalls) : genCalls[i] # imagePath
          /\ \A i \in 1..Len(parseArgs) : parseArgs[i] # origDims
          /\ result.success => result.image_size # origDims

\* a downscaled image went through inference and parsing into the result
C10_Witness ==
    /\ Has("saved")
    /\ result.success
    /\ Len(genCalls) = 1
    /\ Len(result.bounding_boxes) > 0
    /\ origDims = <<4096, 2048>>
    /\ result.image_size = <<2896, 1448>>

\* the direct children of the root that are div elements, in document order
RECURSIVE RootDivs(_)
RootDivs(markup) ==
    IF Len(markup) = 0 THEN <<>>
    ELSE (IF Head(markup).tag = "div" THEN <<Head(markup)>> ELSE <<>>)
         \o RootDivs(Tail(markup))

\* every string below the element, trimmed, the empty ones left out,
\* joined by one blank
FoldedText(div) ==
    Join(<<" ">>, SelectNonEmpty([i \in 1..Len(div.kids) |-> Strip(div.kids[i].chars)]))

\* the parser has returned normally in the current run
Parsed == Len(parseArgs) > 0 /\ raised = <<>>

\* blocks match, one to one and in order, a subsequence of divs
RECURSIVE TextsInOrder(_, _)
TextsInOrder(blocks, divs) ==
    IF Len(blocks) = 0 THEN TRUE
    ELSE IF Len(divs) = 0 THEN FALSE
    ELSE \/ /\ Head(blocks).text = FoldedText(Head(divs))
            /\ TextsInOrder(Tail(blocks), Tail(divs))
         \/ TextsInOrder(blocks, Tail(divs))

\* C11: the blocks correspond, one per element and in document order, to a
\* subsequence of the root's direct child divs; a nested div yields no
\* block of its own, even under a dropped parent, and its text is part of
\* the text of its top-level ancestor's block.
C11_BlocksFromRootDivs ==
    Parsed =>
        /\ Len(bounding_boxes) <= Len(RootDivs(raw_html))
        /\ TextsInOrder(bounding_boxes, RootDivs(raw_html))
        /\ \A i \in 1..Len(raw_html) :
              raw_html[i] \in {NestedInDropped, NestedInParagraph} =>
                 Len(bounding_boxes) <= Len(raw_html) - 1

\* a dropped parent with a boxed nested div, then a block whose text holds
\* its nested div's text
C11_Witness ==
    /\ pc = "assemble"
    /\ raw_html = <<NestedInDropped, NestedInBlock>>
    /\ Len(bounding_boxes) = 1
    /\ bounding_boxes[1].text = <<"a", " ", "b">>

\* C12: no emitted block has empty text: a top-level element whose
\* trimmed text is empty gives no block even when its box is valid.
C12_NoEmptyText ==
    /\ \A i \in 1..Len(bounding_boxes) :
          Len(bounding_boxes[i].text) > 0 /\ ~IsBlank(bounding_boxes[i].text)
    /\ Parsed => Len(bounding_boxes) <= Len(SelectSeq(RootDivs(raw_html), HasText))
    /\ result.success =>
          \A i \in 1..Len(result.bounding_boxes) : Len(result.bounding_boxes[i].text) > 0

\* a boxed element holding only whitespace was dropped, its neighbour kept
C12_Witness ==
    /\ pc = "assemble"
    /\ raw_html = <<BlankBlock, ScenarioA>>
    /\ parseArgs = <<<<1000, 500>>>>
    /\ BoxTexts(bounding_boxes) = <<Hello>>

\* C13 as stated: in one process the external model load is performed at
\* most once, whatever the sequence of calls.
C13_LoadAtMostOnce == loads <= 1

\* C13, amended: the external load succeeds at most once: a call that
\* reaches load_model with an empty cache loads, and once a load has
\* filled the cache the cache never changes and no later call loads again.
C13_LoadedOnce ==
    [][ /\ cache.model # "None" => (cache' = cache /\ loads' = loads)
        /\ (pc = "load" /\ cache.model = "None") => loads' = loads + 1
        /\ cache' # cache => (cache = EmptyCache /\ loads' = loads + 1) ]_vars

\* a second run served from the cache the first run filled
C13_Witness ==
    /\ runs = 2
    /\ Has("cached")
    /\ loads = 1
    /\ cache = [model |-> "model", processor |-> "processor"]
    /\ cache0 = cache

\* resize_image_if_needed has decoded the image and returned to its caller
Decoded == origDims # <<0, 0>>
ResizeReturned == Decoded /\ resizeRet # NoResize

\* the decoded image is within / over the pixel budget of the call
Small == Decoded /\ origDims[1] * origDims[2] <= maxPixels
Oversized == Decoded /\ origDims[1] * origDims[2] > maxPixels

\* C14: for a decodable image of at most max_pixels pixels the call returns
\* the input path and the original (width, height) and writes no file;
\* applied again to its own result it returns the same result.
C14_SmallImageUnchanged ==
    /\ (Small /\ pc \notin {"resize", "unwound", "exited"}) =>
          /\ resizeRet = [path |-> imagePath, dims |-> origDims]
          /\ files = files0
          /\ uncaught = ""
    /\ (Small /\ pc = "resized" /\ imagePath = prevRet.path /\ origDims = prevRet.dims) =>
          resizeRet = prevRet

\* an image of exactly max_pixels pixels, the call applied to its own result
C14_Witness ==
    /\ pc = "resized"
    /\ runs = 2
    /\ origDims = <<3, 2>> /\ maxPixels = 6
    /\ imagePath = prevRet.path /\ prevRet.dims = <<3, 2>>
    /\ resizeRet = prevRet
    /\ files = {}

\* n is floor(side * sqrt(max_pixels / (side * other)))
IsFloorOfScaled(n, side, other, max_pixels) ==
    /\ n * n * (other \div GCD(side, other)) <= (side \div GCD(side, other)) * max_pixels
    /\ (n + 1) * (n + 1) * (other \div GCD(side, other))
          > (side \div GCD(side, other)) * max_pixels

\* C15: for an image of more than max_pixels pixels the returned dimensions
\* are floor(width * scale) and floor(height * scale) for the one factor
\* scale = sqrt(max_pixels / (width * height)), and their product is at
\* most max_pixels; 4000x4000 under 2048*2048 gives a product <= 2048*2048.
C15_DownscaledWithinBudget ==
    /\ (Oversized /\ ResizeReturned) =>
          /\ IsFloorOfScaled(resizeRet.dims[1], origDims[1], origDims[2], maxPixels)
          /\ IsFloorOfScaled(resizeRet.dims[2], origDims[2], origDims[1], maxPixels)
          /\ resizeRet.dims[1] * resizeRet.dims[2] <= maxPixels
    /\ (ResizeReturned /\ origDims = <<4000, 4000>> /\ maxPixels = 2048 * 2048) =>
          resizeRet.dims[1] * resizeRet.dims[2] <= 2048 * 2048

\* 4096x2048 under the default budget: 2896x1448, the floors of 2896.3 and 1448.2
C15_Witness ==
    /\ pc = "resized"
    /\ origDims = <<4096, 2048>> /\ maxPixels = 2048 * 2048
    /\ resizeRet = [path |-> TempPath(imagePath), dims |-> <<2896, 1448>>]

\* C16: for every decodable image with positive width and height and every
\* positive max_pixels the call returns dimensions that are both >= 1, also
\* when a side times the scale factor is below 1.
C16_DimsPositive ==
    (Decoded /\ pc # "resize" /\ ~Has("save_failed")) =>
        /\ uncaught = ""
        /\ resizeRet.dims[1] >= 1
        /\ resizeRet.dims[2] >= 1

\* C17: the downscaled dimensions keep the aspect ratio within one pixel
\* of rounding on each axis: |width' * height - height' * width| is below
\* max(width, height).
C17_AspectRatioKept ==
    (Oversized /\ ResizeReturned) =>
        /\ resizeRet.dims[1] * origDims[2] - resizeRet.dims[2] * origDims[1]
              < Max(origDims[1], origDims[2])
        /\ resizeRet.dims[2] * origDims[1] - resizeRet.dims[1] * origDims[2]
              < Max(origDims[1], origDims[2])

\* 800x600 under a budget of 100 pixels: 11x8, a ratio off by rounding only
C17_Witness ==
    /\ pc = "resized"
    /\ origDims = <<800, 600>> /\ maxPixels = 100
    /\ resizeRet.dims = <<11, 8>>
    /\ resizeRet.dims[1] * origDims[2] # resizeRet.dims[2] * origDims[1]

\* the data-label attribute of an element as written, "Text" for none
OwnLabel(div) == IF div.haslabel THEN div.label ELSE "Text"

\* blocks carry, in order, the texts and own labels of a subsequence of divs
RECURSIVE LabelsInOrder(_, _)
LabelsInOrder(blocks, divs) ==
    IF Len(blocks) = 0 THEN TRUE
    ELSE IF Len(divs) = 0 THEN FALSE
    ELSE \/ /\ Head(blocks).text = FoldedText(Head(divs))
            /\ Head(blocks).label = OwnLabel(Head(divs))
            /\ LabelsInOrder(Tail(blocks), Tail(divs))
         \/ LabelsInOrder(blocks, Tail(divs))

BlockLabels(blocks) == [i \in 1..Len(blocks) |-> blocks[i].label]

\* C18: the label of a block is its element's data-label value unchanged,
\* inside the prompt's vocabulary or not, and the default "Text" stands in
\* only for an absent attribute: the parser validates nothing.
C18_LabelPassedThrough ==
    Parsed =>
        /\ LabelsInOrder(bounding_boxes, RootDivs(raw_html))
        /\ (raw_html = <<UnknownLabel>> /\ Len(bounding_boxes) = 1) =>
              bounding_boxes[1].label = "Sidebar"
        /\ (raw_html = <<NestedInBlock>> /\ Len(bounding_boxes) = 1) =>
              bounding_boxes[1].label = ""

\* a label outside the vocabulary kept, next to a defaulted one
C18_Witness ==
    /\ pc = "assemble"
    /\ raw_html = <<UnknownLabel, ScenarioB>>
    /\ BlockLabels(bounding_boxes) = <<"Sidebar", "Text">>

\* C19 as stated: every emitted block has a label of the fixed vocabulary,
\* an absent or unrecognized label being replaced by "Text".
C19_LabelInVocabulary ==
    \A i \in 1..Len(bounding_boxes) : bounding_boxes[i].label \in LabelVocabulary

\* C19, amended: every emitted block has a label of the fixed vocabulary
\* unless its element carries a data-label outside it, which is kept as
\* written; an absent label is replaced by "Text".
C19_LabelInVocabularyOrOwn ==
    Parsed =>
        /\ \A i \in 1..Len(bounding_boxes) :
              \/ bounding_boxes[i].label \in LabelVocabulary
              \/ \E j \in 1..Len(RootDivs(raw_html)) :
                    /\ RootDivs(raw_html)[j].haslabel
                    /\ RootDivs(raw_html)[j].label = bounding_boxes[i].label
                    /\ RootDivs(raw_html)[j].label \notin LabelVocabulary
        /\ (\A j \in 1..Len(RootDivs(raw_html)) :
                RootDivs(raw_html)[j].haslabel =>
                   RootDivs(raw_html)[j].label \in LabelVocabulary)
              => \A i \in 1..Len(bounding_boxes) :
                    bounding_boxes[i].label \in LabelVocabulary

\* a defaulted label first, then one outside the vocabulary, kept
C19_Witness ==
    /\ pc = "assemble"
    /\ raw_html = <<ScenarioB, UnknownLabel>>
    /\ BlockLabels(bounding_boxes) = <<"Text", "Sidebar">>

\* ls holds, in order, the texts of a subsequence of divs
RECURSIVE LinesInOrder(_, _)
LinesInOrder(ls, divs) ==
    IF Len(ls) = 0 THEN TRUE
    ELSE IF Len(divs) = 0 THEN FALSE
    ELSE \/ /\ Head(ls) = FoldedText(Head(divs))
            /\ LinesInOrder(Tail(ls), Tail(divs))
         \/ LinesInOrder(ls, Tail(divs))

\* text is the newline-join of ls and no entry of ls is empty
TextLinesShape(t, ls) ==
    /\ t = Join(<<"\n">>, ls)
    /\ \A i \in 1..Len(ls) : Len(ls[i]) > 0

\* C20: in every successful result text is the newline-join of lines, no
\* line is empty and the lines keep document order; with blocks there is
\* one line per block in block order.  The tag-stripping fallback gives the
\* same shape on every markup the inference call returned.
C20_TextLinesShape ==
    /\ result.success =>
          /\ TextLinesShape(result.text, result.lines)
          /\ LinesInOrder(result.lines, RootDivs(result.raw_html))
          /\ Len(result.bounding_boxes) > 0 =>
                /\ Len(result.lines) = Len(result.bounding_boxes)
                /\ \A i \in 1..Len(result.lines) :
                      result.lines[i] = result.bounding_boxes[i].text
    /\ pc \in {"parse", "assemble"} =>
          /\ TextLinesShape(ExtractTextFromHtml(raw_html, FALSE).text,
                            ExtractTextFromHtml(raw_html, FALSE).lines)
          /\ TextLinesShape(ExtractTextFromHtml(raw_html, TRUE).text,
                            ExtractTextFromHtml(raw_html, TRUE).lines)

\* two elements without a usable box: the structured fallback's two lines
C20_Witness ==
    /\ result.success
    /\ result.raw_html = <<NestedInDropped, EmptyBbox>>
    /\ fallbackCalls = 1
    /\ result.lines = <<<<"a", "b", " ", "b">>, Hello>>
    /\ result.text = <<"a", "b", " ", "b", "\n", "a", "b">>

\* the attribute text is four number literals, integer or not: in a JSON
\* array, or separated by single blanks
IsNumTok(t) == t.k = "num"

JsonNums(toks) ==
    /\ Len(DropWs(toks)) = 9
    /\ DropWs(toks)[1] = LB /\ DropWs(toks)[9] = RB
    /\ \A i \in {2, 4, 6, 8} : IsNumTok(DropWs(toks)[i])
    /\ \A i \in {3, 5, 7} : DropWs(toks)[i] = COMMA

BlankNums(toks) ==
    /\ Len(toks) = 7
    /\ \A i \in {1, 3, 5, 7} : IsNumTok(toks[i])
    /\ \A i \in {2, 4, 6} : toks[i] = WS

NumericBox(div) == div.hasbbox /\ (JsonNums(div.bbox) \/ BlankNums(div.bbox))

\* a number literal n/d cut toward zero: 1.9 is 1, -1.9 is -1
TowardZero(t) == IF t.n >= 0 THEN t.n \div t.d ELSE -((-t.n) \div t.d)

BoxTruncated(div) ==
    IF JsonNums(div.bbox)
    THEN [i \in 1..4 |-> TowardZero(DropWs(div.bbox)[2 * i])]
    ELSE [i \in 1..4 |-> TowardZero(div.bbox[2 * i - 1])]

RECURSIVE RefBoxesTruncated(_, _, _)
RefBoxesTruncated(divs, w, h) ==
    IF Len(divs) = 0 THEN <<>>
    ELSE (IF /\ HasText(Head(divs))
             /\ RefBox(BoxTruncated(Head(divs)), w, h)[3] > 0
             /\ RefBox(BoxTruncated(Head(divs)), w, h)[4] > 0
          THEN <<RefBox(BoxTruncated(Head(divs)), w, h)>> ELSE <<>>)
         \o RefBoxesTruncated(Tail(divs), w, h)

\* C21: a data-bbox of four numbers that are not all integers is accepted in
\* the JSON-array and in the whitespace-separated encoding, and each
\* coordinate is cut toward zero before scaling (1.9 is treated as 1).
C21_NonIntegerAccepted ==
    ( /\ Parsed
      /\ \A i \in 1..Len(RootDivs(raw_html)) : NumericBox(RootDivs(raw_html)[i]) )
    => BoxesOf(bounding_boxes) =
          RefBoxesTruncated(RootDivs(raw_html), parseArgs[1][1], parseArgs[1][2])

\* C22: without the markup parser library a run whose inference call
\* succeeds does not fail: it returns success = true with the text and
\* lines of the tag-stripping strategy and the lower confidence.
C22_DegradedRunSucceeds ==
    (~env.bs4 /\ Len(parseArgs) > 0) =>
        /\ raised = <<>>
        /\ pc = "returned" =>
              /\ result.success
              /\ result.confidence = CONF_LOW
              /\ result.text = ExtractTextFromHtml(raw_html, FALSE).text
              /\ result.lines = ExtractTextFromHtml(raw_html, FALSE).lines

\* C23: with the unknown-dimensions sentinel (0, 0) the parser emits no
\* block whatever the markup, and a run whose inference call succeeds
\* returns success = true with the fallback text, the lower confidence, an
\* empty block list and image_size [0, 0].  (Stated for the runs in which
\* the markup parser is installed, so that parse_layout_blocks gets to the
\* markup.)
C23_SentinelRunSucceeds ==
    (env.bs4 /\ Len(parseArgs) > 0 /\ parseArgs[1] = <<0, 0>>) =>
        /\ bounding_boxes = <<>>
        /\ raised = <<>>
        /\ pc = "returned" =>
              /\ result.success
              /\ result.confidence = CONF_LOW
              /\ result.bounding_boxes = <<>>
              /\ result.image_size = <<0, 0>>
              /\ fallbackCalls = 1

\* C24: when two callers run load_model concurrently, interleaved statement
\* by statement, every pair returned has both the model and the processor
\* set, and the external load is performed only once.
C24_ConcurrentLoadSafe ==
    /\ \A c \in Callers :
          lpc[c] = "done" => (lret[c].model # "None" /\ lret[c].processor # "None")
    /\ Cardinality({c \in Callers : lloc[c] # EmptyCache}) <= 1

====
